---- MODULE Spec2Model ----
(***************************************************************************)
(* Model of keras_cv_attention_models/stable_diffusion/stable_diffusion.py *)
(* StableDiffusion: the DDIM schedule built by init_ddim_sampler and the   *)
(* sampling entry points text_to_image / image_to_image / in_paint.        *)
(*                                                                         *)
(* Floating point values are fixed-point integers in units of 1/SCALE, so  *)
(* SCALE stands for 1.0.  A non-finite float (nan, inf) is the value NaN.  *)
(* A tensor is represented by one of its elements: every sampler operation *)
(* on tensors is element-wise, and the collaborators are functions of their     *)
(* inputs.                                                                 *)
(***************************************************************************)
EXTENDS Integers, Sequences, FiniteSets, TLC

(* ---------------------------- bounds ----------------------------------- *)
MinTrain == 3        \* smallest num_training_steps
MaxTrain == 8        \* largest num_training_steps
MaxSteps == 4        \* largest num_steps
MaxCalls == 2        \* sampling calls per sampler instance

(* ----------------------- float arithmetic ------------------------------ *)
SCALE == 1000
NaN == 0 - 1000000000

IsNaN(x) == x = NaN

FAdd(a, b) == IF IsNaN(a) \/ IsNaN(b) THEN NaN ELSE a + b
FSub(a, b) == IF IsNaN(a) \/ IsNaN(b) THEN NaN ELSE a - b

\* integer division rounding to -infinity, any signs
IDiv(a, b) ==
    IF b > 0 THEN a \div b ELSE (0 - a) \div (0 - b)

FMul(a, b) == IF IsNaN(a) \/ IsNaN(b) THEN NaN ELSE IDiv(a * b, SCALE)

\* numpy division: x/0 is inf or nan (a warning, no exception)
FDiv(a, b) ==
    IF IsNaN(a) \/ IsNaN(b) \/ b = 0 THEN NaN ELSE IDiv(a * SCALE, b)

RECURSIVE ISqrtIn(_, _, _)
ISqrtIn(n, lo, hi) ==
    IF lo >= hi THEN lo
    ELSE LET mid == (lo + hi + 1) \div 2
         IN  IF mid * mid <= n THEN ISqrtIn(n, mid, hi) ELSE ISqrtIn(n, lo, mid - 1)

\* x ** 0.5 on floats: nan for a negative or non-finite argument
FSqrt(x) ==
    IF IsNaN(x) \/ x < 0 THEN NaN ELSE ISqrtIn(x * SCALE, 0, 40000)

(* ------------------------ configurations ------------------------------- *)
Modes == {"uniform", "quad", "quadratic"}
\* <<linear_start, linear_end>>: 0.01 and 0.09 lie in (0,1), 0 does not
LinearPairs == {<< SCALE \div 100, (9 * SCALE) \div 100 >>, << 0, 0 >>}
EtaValues == {0, SCALE}

TrainSteps == {MinTrain} \cup ((MaxTrain - 1) .. MaxTrain)

Configs ==
    {[num_steps |-> n, num_training_steps |-> t, ddim_discretize |-> m,
      linear_start |-> lp[1], linear_end |-> lp[2], ddim_eta |-> e] :
        n \in (0 - 1) .. MaxSteps, t \in TrainSteps, m \in Modes,
        lp \in LinearPairs, e \in EtaValues}

(* ============================== claims ================================= *)
\* the configurations the schedule is specified for
ValidConfig(c) ==
    /\ c.num_steps >= 1
    /\ c.num_training_steps >= c.num_steps
    /\ 0 < c.linear_start /\ c.linear_start < SCALE
    /\ 0 < c.linear_end /\ c.linear_end < SCALE

\* the configurations of the samplers whose sampling calls are explored
SamplingConfigs ==
    {c \in Configs : c.num_training_steps = MaxTrain /\ c.ddim_discretize # "quadratic"}

(* ---------------------- init_ddim_sampler ------------------------------ *)
\* Python's floor division num_training_steps // num_steps (num_steps # 0)
interval(c) ==
    IF c.num_steps > 0 THEN c.num_training_steps \div c.num_steps
    ELSE 0 - ((c.num_training_steps + (0 - c.num_steps) - 1) \div (0 - c.num_steps))

\* np.arange(0, stop, step) + 1 for stop > 0, step # 0
ArangePlus1(stop, step) ==
    IF step < 0 THEN << >>
    ELSE [k \in 1 .. ((stop + step - 1) \div step) |-> (k - 1) * step + 1]

\* the value of a computation that raised an exception
Raised == << 0 - 1 >>

\* interval = num_training_steps // num_steps; np.arange(0, num_training_steps, interval) + 1
\* (ZeroDivisionError when num_steps or interval is 0)
UniformTimeSteps(c) ==
    IF c.num_steps = 0 THEN Raised
    ELSE IF interval(c) = 0 THEN Raised
    ELSE ArangePlus1(c.num_training_steps, interval(c))

\* the bug np.linspace(sqrt(num_training_steps * 0.8), 0, num_steps): end points swapped
QuadTimeStepsSwapped(c) ==
    IF c.num_steps < 0 THEN Raised
    ELSE IF c.num_steps = 1 THEN << 1 >>
    ELSE [k \in 1 .. c.num_steps |->
            ((4 * c.num_training_steps * (c.num_steps - k) * (c.num_steps - k))
                \div (5 * (c.num_steps - 1) * (c.num_steps - 1))) + 1]

\* ((np.linspace(0, sqrt(num_training_steps * 0.8), num_steps)) ** 2).astype(int) + 1
\* (np.linspace raises ValueError for a negative number of samples)
QuadTimeSteps(c) ==
    IF c.num_steps < 0 THEN Raised
    ELSE IF c.num_steps = 1 THEN << 1 >>
    ELSE [k \in 1 .. c.num_steps |->
            ((4 * c.num_training_steps * (k - 1) * (k - 1))
                \div (5 * (c.num_steps - 1) * (c.num_steps - 1))) + 1]

\* the bug ddim_discretize == "quadratic": the mode's name as the interface spells it
TimeStepsOfQuadratic(c) ==
    IF c.ddim_discretize = "quadratic" THEN QuadTimeSteps(c) ELSE UniformTimeSteps(c)

TimeStepsOf(c) ==
    IF c.ddim_discretize = "quad" THEN QuadTimeSteps(c) ELSE UniformTimeSteps(c)

TimeStepsRaises(c) == TimeStepsOf(c) = Raised

\* np.linspace(linear_start**0.5, linear_end**0.5, num_training_steps) ** 2
beta(c) ==
    LET a == FSqrt(c.linear_start)
        b == FSqrt(c.linear_end)
        n == c.num_training_steps
    IN  [t \in 1 .. n |->
            LET v == IF n = 1 THEN a
                     ELSE IF t = n THEN b
                     ELSE a + IDiv((t - 1) * (b - a), n - 1)
            IN  FMul(v, v)]

\* np.cumprod(1.0 - beta); index t of the model is index t - 1 of the array
RECURSIVE CumProd(_, _)
CumProd(bs, t) ==
    IF t = 1 THEN SCALE - bs[1]
    ELSE FMul(CumProd(bs, t - 1), SCALE - bs[t])

alpha_bar(c) == [t \in 1 .. c.num_training_steps |-> CumProd(beta(c), t)]

\* alpha_bar[time_steps] raises IndexError when an index is out of range
IndexRaises(c, ts) == \E i \in 1 .. Len(ts) : ts[i] > c.num_training_steps - 1

InitRaises(c) == TimeStepsRaises(c) \/ IndexRaises(c, TimeStepsOf(c))

\* alpha_bar[time_steps]
DdimAlpha(c, ts) == [i \in 1 .. Len(ts) |-> alpha_bar(c)[ts[i] + 1]]

\* the bug np.concatenate([alpha_bar[:1], alpha_bar[time_steps[1:]]]): wrong slice
DdimAlphaPrevUnshifted(c, ts) ==
    [i \in 1 .. (IF Len(ts) = 0 THEN 1 ELSE Len(ts)) |->
        IF i = 1 THEN alpha_bar(c)[1] ELSE alpha_bar(c)[ts[i] + 1]]

\* np.concatenate([alpha_bar[:1], alpha_bar[time_steps[:-1]]])
DdimAlphaPrev(c, ts) ==
    [i \in 1 .. (IF Len(ts) = 0 THEN 1 ELSE Len(ts)) |->
        IF i = 1 THEN alpha_bar(c)[1] ELSE alpha_bar(c)[ts[i - 1] + 1]]

SigmaAt(eta, a, ap) ==
    FMul(eta, FSqrt(FMul(FDiv(SCALE - ap, SCALE - a), FSub(SCALE, FDiv(a, ap)))))

\* ddim_eta * ((1 - alpha_prev) / (1 - alpha) * (1 - alpha / alpha_prev)) ** 0.5
DdimSigma(c, ts) ==
    [i \in 1 .. Len(ts) |-> SigmaAt(c.ddim_eta, DdimAlpha(c, ts)[i], DdimAlphaPrev(c, ts)[i])]

(* -------------------------- collaborators ------------------------------ *)
Prompts == {1, 2}            \* two non-empty prompts; 0 is the empty string
I2IPrompts == {1}
UnetWeights == {10}          \* the weights of the noise-prediction network

\* caption_tokenizer followed by clip_model: the embedding of a prompt
clip_model(p) == 100 + 50 * p

\* unet_model on one half of the batch: latent, time step, embedding
unet_model(w, x, ts, tok) ==
    IF IsNaN(x) THEN NaN ELSE IDiv(x, 4) + w * IDiv(tok, 50) + 10 * ts

\* decoder_model
decoder_model(z) == z

(* ------------------------- np.random --------------------------------- *)
RngPeriod == 3
Seeds == {0}
\* the value np.random.normal returns in generator state r
Normal(r) == (((r * 2) % 3) - 1) * (SCALE \div 2)
NextRng(r) == (r + 1) % RngPeriod

(* ------------------------ call arguments ------------------------------ *)
\* << batch_size, image_shape, repeat_noise >>
CallShapes == {<< 1, 64, FALSE >>, << 2, 64, TRUE >>, << 1, 100, FALSE >>, << 2, 100, TRUE >>}
DefaultLatentScale == 182                  \* latent_scaling_factor = 0.18215
T2IUncondScale == 7500                     \* uncond_scale = 7.5
I2IUncondScale == 5000                     \* uncond_scale = 5.0
Temperature == SCALE                       \* temperature = 1
NoInpaint == [on |-> FALSE, latents |-> 0, noise |-> 0, mask |-> 0]
NoX0 == [given |-> FALSE, value |-> 0, batch |-> 0]

\* encoder_model on an image: mean and log variance halves of its output
encoder_model(img) == [mean |-> 300 * img, log_var |-> 0]

\* functional.exp(log_var * 0.5) after clip_by_value(log_var, -30, 20)
StdOf(log_var) ==
    LET lv == IF log_var < 0 - 30 THEN 0 - 30 ELSE IF log_var > 20 THEN 20 ELSE log_var
    IN  IF lv = 0 THEN SCALE ELSE IF lv < 0 THEN 0 ELSE 22026 * SCALE

\* strength is StrengthNum / StrengthDen, box coordinates are in halves
StrengthDen == 2
DefaultBox == << 1, 0, 2, 2 >>             \* inpaint_mask = [0.5, 0, 1, 1]
NoMask == [kind |-> "none", box |-> << 0, 0, 0, 0 >>, value |-> 0, shape_ok |-> TRUE]
BoxMask(b) == [kind |-> "box", box |-> b, value |-> 0, shape_ok |-> TRUE]
TensorMask(v, ok) == [kind |-> "tensor", box |-> << 0, 0, 0, 0 >>, value |-> v, shape_ok |-> ok]

\* int(x) for x = n / d, d > 0: truncation towards zero
IntOf(n, d) == IF n >= 0 THEN n \div d ELSE 0 - ((0 - n) \div d)

\* a[i] on a numpy array of length len: negative indices count from the end
IndexOK(len, i) == (0 - len) <= i /\ i < len
At(a, i) == IF i >= 0 THEN a[i + 1] ELSE a[Len(a) + i + 1]

\* np.zeros(shape); mask[:, top:bottom, left:right, :] = 1, read at element
\* << row, col >> of a latent (slices are clipped to the array)
BoxMaskAt(box, height, width, obs) ==
    LET top == IntOf(box[1] * height, 2)
        left == IntOf(box[2] * width, 2)
        bottom == IntOf(box[3] * height, 2)
        right == IntOf(box[4] * width, 2)
    IN  IF top <= obs[1] /\ obs[1] < bottom /\ left <= obs[2] /\ obs[2] < right
        THEN SCALE ELSE 0

\* the bug range(n): the reversal forgotten
ForwardRange(n) == IF n <= 0 THEN << >> ELSE [k \in 1 .. n |-> k - 1]

\* range(n)[::-1]
ReversedRange(n) == IF n <= 0 THEN << >> ELSE [k \in 1 .. n |-> n - k]

VARIABLES
    sampler,                    \* "new", "built" or "failed" (the constructor raised)
    cfg,                        \* the constructor's arguments
    unet_w,                     \* the noise-prediction network of the instance
    time_steps, ddim_alpha, ddim_alpha_prev, ddim_sigma,
    ddim_alpha_sqrt, ddim_sqrt_one_minus_alpha,
    uncond_prompt,              \* self.uncond_prompt
    uncond_token,               \* self.uncond_token, -1 while the attribute is not set
    uncond_computed,            \* number of clip_model calls on the empty prompt's tokens
    rng,                        \* state of np.random
    calls,                      \* sampling calls started on the instance
    pc,                         \* "idle", "loop", "done"
    call,                       \* arguments of the current text_to_image call
    target_shape,               \* << height, width >> of the latent
    cond_token,
    xt,                         \* the latent
    ref_xt,                     \* the latent of the same run without the inpaint blend
    todo,                       \* the indices the loop has still to consume
    visited,                    \* the indices the loop consumed, in order
    draws,                      \* gaussian_sample calls of the current call
    loop_draws,                 \* those made inside the loop
    unet_calls,                 \* unet_model calls of the current call
    unet_io,                    \* inputs, output and e_t of the last unet_model call
    start_rng,                  \* state of np.random when the current call was entered
    first,                      \* the first text_to_image call that returned
    result,                     \* the decoded image
    encoder,                    \* self.encoder_model: "None" or "Encoder"
    i2i,                        \* locals of the image_to_image call in progress
    raised                      \* the exception that ended the last call, or "none"

schedVars == << time_steps, ddim_alpha, ddim_alpha_prev, ddim_sigma,
                ddim_alpha_sqrt, ddim_sqrt_one_minus_alpha >>
instVars == << sampler, cfg, unet_w >>
callVars == << call, target_shape, cond_token, xt, ref_xt, todo, visited,
               draws, loop_draws, unet_calls, unet_io, start_rng >>

vars == << sampler, cfg, unet_w, time_steps, ddim_alpha, ddim_alpha_prev, ddim_sigma,
           ddim_alpha_sqrt, ddim_sqrt_one_minus_alpha, uncond_prompt, uncond_token,
           uncond_computed, rng, calls, pc, call, target_shape, cond_token, xt,
           ref_xt, todo, visited, draws, loop_draws, unet_calls, unet_io, start_rng,
           first, result, encoder, i2i, raised >>

NoCfg == [num_steps |-> 0, num_training_steps |-> 1, ddim_discretize |-> "uniform",
          linear_start |-> 0, linear_end |-> 0, ddim_eta |-> 0]

NoCall == [entry |-> "none", prompt |-> 0, batch_size |-> 0, image_shape |-> << 0, 0 >>,
           repeat_noise |-> FALSE, init_x0 |-> NoX0, init_step |-> 0,
           uncond_scale |-> 0, inpaint |-> NoInpaint]

NoFirst == [call |-> NoCall, rng |-> 0, result |-> 0]

NoUnetIO == [xt_inputs |-> << >>, time_step |-> << >>, context |-> << >>,
             out |-> << >>, e_t |-> 0]

NoI2I == [image |-> << 0, 0 >>, strength |-> 0, is_inpaint |-> FALSE, mask |-> NoMask,
          obs |-> << 0, 0 >>, height |-> 0, width |-> 0, timestep_start |-> 0]

Init ==
    /\ sampler = "new"
    /\ cfg = NoCfg
    /\ unet_w = 0
    /\ time_steps = << >>
    /\ ddim_alpha = << >>
    /\ ddim_alpha_prev = << >>
    /\ ddim_sigma = << >>
    /\ ddim_alpha_sqrt = << >>
    /\ ddim_sqrt_one_minus_alpha = << >>
    /\ uncond_prompt = "None"
    /\ uncond_token = 0 - 1
    /\ uncond_computed = 0
    /\ rng = 0
    /\ calls = 0
    /\ pc = "idle"
    /\ call = NoCall
    /\ target_shape = << 0, 0 >>
    /\ cond_token = 0
    /\ xt = 0
    /\ ref_xt = 0
    /\ todo = << >>
    /\ visited = << >>
    /\ draws = 0
    /\ loop_draws = 0
    /\ unet_calls = 0
    /\ unet_io = NoUnetIO
    /\ start_rng = 0
    /\ first = NoFirst
    /\ result = 0
    /\ encoder = "None"
    /\ i2i = NoI2I
    /\ raised = "none"

\* StableDiffusion.__init__: the collaborators, uncond_prompt = None, the schedule
init_ddim_sampler(c, w) ==
    /\ sampler = "new"
    /\ cfg' = c
    /\ unet_w' = w
    /\ IF InitRaises(c)
       THEN /\ sampler' = "failed"
            /\ UNCHANGED schedVars
       ELSE LET ts == TimeStepsOf(c)
                al == DdimAlpha(c, ts)
            IN  /\ sampler' = "built"
                /\ time_steps' = ts
                /\ ddim_alpha' = al
                /\ ddim_alpha_prev' = DdimAlphaPrev(c, ts)
                /\ ddim_sigma' = DdimSigma(c, ts)
                /\ ddim_alpha_sqrt' = [i \in 1 .. Len(al) |-> FSqrt(al[i])]
                /\ ddim_sqrt_one_minus_alpha' = [i \in 1 .. Len(al) |-> FSqrt(FSub(SCALE, al[i]))]
    /\ UNCHANGED << uncond_prompt, uncond_token, uncond_computed, rng, calls, pc,
                    callVars, first, result, encoder, i2i, raised >>

\* np.random.seed(s), by the caller between two calls
np_random_seed(s) ==
    /\ pc # "loop"
    /\ sampler = "built"
    /\ rng # s
    /\ rng' = s
    /\ UNCHANGED << instVars, schedVars, uncond_prompt, uncond_token, uncond_computed,
                    calls, pc, callVars, first, result, encoder, i2i, raised >>

\* the initial latent, had the one left by the previous call been kept
InitialLatentKept(a, r) ==
    IF a.init_x0.given THEN a.init_x0.value
    ELSE IF calls = 0 THEN Normal(r) ELSE xt

\* the initial latent (lines 151-155): init_x0, or a fresh gaussian sample
InitialLatent(a, r) ==
    IF a.init_x0.given THEN a.init_x0.value ELSE Normal(r)

\* text_to_image up to the loop (lines 132-158), entered with generator state r
\* after d gaussian_sample calls made by the caller
T2IBegin(a, r, d) ==
    LET batch == IF a.init_x0.given THEN a.init_x0.batch ELSE a.batch_size
        x0 == InitialLatent(a, r)
    IN  /\ call' = [a EXCEPT !.batch_size = batch]
        /\ target_shape' = << a.image_shape[1] \div 8, a.image_shape[2] \div 8 >>
        /\ IF uncond_prompt = "None"
           THEN /\ uncond_token' = clip_model(0)
                /\ uncond_computed' = uncond_computed + 1
           ELSE UNCHANGED << uncond_token, uncond_computed >>
        /\ cond_token' = clip_model(a.prompt)
        /\ xt' = x0
        /\ ref_xt' = x0
        /\ rng' = IF a.init_x0.given THEN r ELSE NextRng(r)
        /\ draws' = IF a.init_x0.given THEN d ELSE d + 1
        /\ loop_draws' = 0
        /\ unet_calls' = 0
        /\ unet_io' = NoUnetIO
        /\ start_rng' = rng
        /\ todo' = ReversedRange(cfg.num_steps - a.init_step)
        /\ visited' = << >>
        /\ pc' = "loop"
        /\ calls' = calls + 1
        /\ raised' = "none"
        /\ UNCHANGED << instVars, schedVars, uncond_prompt, result, first >>

T2IArgs ==
    {[entry |-> "text_to_image", prompt |-> p, batch_size |-> cs[1],
      image_shape |-> << cs[2], cs[2] >>, repeat_noise |-> cs[3], init_x0 |-> x,
      init_step |-> k, uncond_scale |-> T2IUncondScale, inpaint |-> NoInpaint] :
        p \in Prompts, cs \in CallShapes,
        x \in {NoX0, [given |-> TRUE, value |-> SCALE, batch |-> 1]},
        k \in 0 .. (IF cfg.num_steps < 0 THEN 0 ELSE cfg.num_steps)}

text_to_image(a) ==
    /\ sampler = "built"
    /\ pc # "loop"
    /\ calls < MaxCalls
    /\ T2IBegin(a, rng, 0)
    /\ i2i' = NoI2I
    /\ UNCHANGED encoder

I2IShapes == {<< 1, << 64, 64 >>, FALSE >>, << 2, << 100, 128 >>, TRUE >>}
Images == {1}
TensorMasks == {TensorMask(SCALE, TRUE), TensorMask(0, TRUE), TensorMask(SCALE, FALSE)}

\* image_to_image (lines 205-272) up to the loop of the text_to_image it calls
I2IBody(entry, img, image, prompt, batch_size, strength, repeat_noise, is_inpaint, mask, obs) ==
    LET height == image[1] - (image[1] % 64)
        width == image[2] - (image[2] % 64)
        enc == encoder_model(img)
        gaussian == Normal(rng)
        r1 == NextRng(rng)
        image_latents == FMul(FAdd(enc.mean, FMul(StdOf(enc.log_var), gaussian)),
                              DefaultLatentScale)
        noise == Normal(r1)
        r2 == NextRng(r1)
        timestep_start == IntOf(strength * cfg.num_steps, StrengthDen)
        indexError == ~IndexOK(Len(ddim_alpha_sqrt), timestep_start)
        assertError == is_inpaint /\ mask.kind = "tensor" /\ ~mask.shape_ok
        init_x0 == FAdd(FMul(At(ddim_alpha_sqrt, timestep_start), image_latents),
                        FMul(At(ddim_sqrt_one_minus_alpha, timestep_start), noise))
        mask_value == IF mask.kind = "box"
                      THEN BoxMaskAt(mask.box, height, width, obs)
                      ELSE mask.value
        frame == [image |-> image, strength |-> strength, is_inpaint |-> is_inpaint,
                  mask |-> mask, obs |-> obs, height |-> height, width |-> width,
                  timestep_start |-> timestep_start]
    IN  /\ sampler = "built"
        /\ pc # "loop"
        /\ calls < MaxCalls
        /\ encoder' = "Encoder"
        /\ i2i' = frame
        /\ IF indexError \/ assertError
           THEN /\ pc' = "raised"
                /\ raised' = IF indexError THEN "IndexError" ELSE "AssertionError"
                /\ rng' = r2
                /\ draws' = 2
                /\ calls' = calls + 1
                /\ call' = [NoCall EXCEPT !.entry = entry]
                /\ start_rng' = rng
                /\ UNCHANGED << instVars, schedVars, uncond_prompt, uncond_token,
                                uncond_computed, target_shape, cond_token, xt, ref_xt,
                                todo, visited, loop_draws, unet_calls, unet_io,
                                result, first >>
           ELSE T2IBegin([entry |-> entry, prompt |-> prompt, batch_size |-> batch_size,
                          image_shape |-> << height, width >>,
                          repeat_noise |-> repeat_noise,
                          init_x0 |-> [given |-> TRUE, value |-> init_x0,
                                       batch |-> batch_size],
                          init_step |-> cfg.num_steps - timestep_start,
                          uncond_scale |-> I2IUncondScale,
                          inpaint |-> IF is_inpaint
                                      THEN [on |-> TRUE, latents |-> image_latents,
                                            noise |-> noise, mask |-> mask_value]
                                      ELSE NoInpaint],
                         r2, 2)

\* the observed latent elements: the first and the last of the latent
ObsCells(image) ==
    {<< 0, 0 >>, << ((image[1] - (image[1] % 64)) \div 8) - 1,
                    ((image[2] - (image[2] % 64)) \div 8) - 1 >>}

image_to_image(img, p, sh, strength, is_inpaint, mask, obs) ==
    I2IBody("image_to_image", img, sh[2], p, sh[1], strength, sh[3], is_inpaint, mask, obs)

\* in_paint (lines 274-288): image_to_image with is_inpaint=True
in_paint(img, p, sh, strength, mask, obs) ==
    I2IBody("in_paint", img, sh[2], p, sh[1], strength, sh[3], TRUE, mask, obs)

\* [v] * n
Repeat(v, n) == [j \in 1 .. n |-> v]

\* the same call with the conditional embeddings put first
UnetLocalsCondFirst(x, time_step, scale) ==
    LET batch_size == call.batch_size
        uncond_cond_prompt == Repeat(cond_token, batch_size)
                              \o Repeat(uncond_token, batch_size)
        ts == Repeat(time_step, batch_size * 2)
        xt_inputs == Repeat(x, batch_size) \o Repeat(x, batch_size)
        out == [j \in 1 .. Len(xt_inputs) |->
                    unet_model(unet_w, xt_inputs[j], ts[j], uncond_cond_prompt[j])]
        e_t_uncond == SubSeq(out, 1, Len(out) \div 2)
        e_t_cond == SubSeq(out, (Len(out) \div 2) + 1, Len(out))
    IN  [xt_inputs |-> xt_inputs, time_step |-> ts, context |-> uncond_cond_prompt,
         out |-> out,
         e_t |-> FAdd(e_t_uncond[1], FMul(FSub(e_t_cond[1], e_t_uncond[1]), scale))]

\* the locals of one iteration's unet_model call (lines 149, 160-167): the batch
\* rows carry the observed latent element; uncond_cond_prompt is
\* [uncond_token] * batch_size + [cond_token] * batch_size, time_step is stacked
\* batch_size * 2 times, xt_inputs is concat([xt, xt]), out is split in two halves
UnetLocals(x, time_step, scale) ==
    LET batch_size == call.batch_size
        uncond_cond_prompt == Repeat(uncond_token, batch_size)
                              \o Repeat(cond_token, batch_size)
        ts == Repeat(time_step, batch_size * 2)
        xt_inputs == Repeat(x, batch_size) \o Repeat(x, batch_size)
        out == [j \in 1 .. Len(xt_inputs) |->
                    unet_model(unet_w, xt_inputs[j], ts[j], uncond_cond_prompt[j])]
        e_t_uncond == SubSeq(out, 1, Len(out) \div 2)
        e_t_cond == SubSeq(out, (Len(out) \div 2) + 1, Len(out))
    IN  [xt_inputs |-> xt_inputs, time_step |-> ts, context |-> uncond_cond_prompt,
         out |-> out,
         e_t |-> FAdd(e_t_uncond[1], FMul(FSub(e_t_cond[1], e_t_uncond[1]), scale))]

\* get_eps (lines 162-167): one unet_model call on the doubled batch, whose first
\* half carries uncond_token and whose second half carries cond_token
GuidedNoise(x, time_step, scale) == UnetLocals(x, time_step, scale).e_t

\* get_x_prev_and_pred_x0 (lines 170-176) at index i (from 1) of the schedule
DDIMStep(x, e_t, i, noise) ==
    LET alpha_prev == ddim_alpha_prev[i]
        sigma == ddim_sigma[i]
        pred_x0 == FDiv(FSub(x, FMul(e_t, ddim_sqrt_one_minus_alpha[i])),
                        FSqrt(ddim_alpha[i]))
        dir_xt == FMul(e_t, FSqrt(FSub(FSub(SCALE, alpha_prev), FMul(sigma, sigma))))
    IN  FAdd(FAdd(FMul(FSqrt(alpha_prev), pred_x0), dir_xt),
             FMul(FMul(sigma, Temperature), noise))

\* q_sample of the original latents (line 179)
OrigT(i, inp) ==
    FAdd(FMul(ddim_alpha_sqrt[i], inp.latents),
         FMul(ddim_sqrt_one_minus_alpha[i], inp.noise))

\* the bug xt = orig_t * (1 - inpaint_mask) + xt * inpaint_mask: mask inverted
InpaintBlendInverted(orig_t, x, mask) ==
    FAdd(FMul(orig_t, FSub(SCALE, mask)), FMul(x, mask))

\* xt = orig_t * inpaint_mask + xt * (1 - inpaint_mask) (line 180)
InpaintBlend(orig_t, x, mask) ==
    FAdd(FMul(orig_t, mask), FMul(x, FSub(SCALE, mask)))

\* one iteration of the loop (lines 159-183)
LoopStep ==
    /\ pc = "loop"
    /\ todo # << >>
    /\ LET cur_step == Head(todo)
       IN  IF ~IndexOK(Len(time_steps), cur_step)
           THEN /\ pc' = "raised"
                /\ raised' = "IndexError"
                /\ UNCHANGED << xt, ref_xt, rng, draws, loop_draws, unet_calls,
                                unet_io, visited, todo >>
           ELSE LET i == IF cur_step >= 0 THEN cur_step + 1
                         ELSE Len(time_steps) + cur_step + 1
                    e_t == GuidedNoise(xt, time_steps[i], call.uncond_scale)
                    drawn == ddim_sigma[i] # 0
                    noise == IF drawn THEN Normal(rng) ELSE 0
                    x_prev == DDIMStep(xt, e_t, i, noise)
                IN  /\ xt' = IF call.inpaint.on
                             THEN InpaintBlend(OrigT(i, call.inpaint), x_prev,
                                               call.inpaint.mask)
                             ELSE x_prev
                    /\ ref_xt' = DDIMStep(ref_xt, e_t, i, noise)
                    /\ rng' = IF drawn THEN NextRng(rng) ELSE rng
                    /\ draws' = IF drawn THEN draws + 1 ELSE draws
                    /\ loop_draws' = IF drawn THEN loop_draws + 1 ELSE loop_draws
                    /\ unet_calls' = unet_calls + 1
                    /\ unet_io' = UnetLocals(xt, time_steps[i], call.uncond_scale)
                    /\ visited' = Append(visited, cur_step)
                    /\ todo' = Tail(todo)
                    /\ UNCHANGED << pc, raised >>
    /\ UNCHANGED << instVars, schedVars, uncond_prompt, uncond_token, uncond_computed,
                    calls, call, target_shape, cond_token, start_rng, first, result,
                    encoder, i2i >>

\* the decoder call that ends text_to_image (lines 185-189); when record is set,
\* the first text_to_image call to return is remembered with its arguments, the
\* generator state it started from and its result
Return(record) ==
    /\ pc = "loop"
    /\ todo = << >>
    /\ result' = decoder_model(FDiv(xt, DefaultLatentScale))
    /\ first' = IF record /\ first = NoFirst /\ call.entry = "text_to_image"
                THEN [call |-> call, rng |-> start_rng, result |-> result']
                ELSE first
    /\ pc' = "done"
    /\ UNCHANGED << instVars, schedVars, uncond_prompt, uncond_token, uncond_computed,
                    rng, calls, callVars, encoder, i2i, raised >>

Decode == Return(FALSE)

DecodeRecording == Return(TRUE)

\* construction alone, over every configuration
NextSchedule == \E c \in Configs, w \in UnetWeights : init_ddim_sampler(c, w)

SpecSchedule == Init /\ [][NextSchedule]_vars

Next ==
    \/ \E c \in SamplingConfigs, w \in UnetWeights : init_ddim_sampler(c, w)
    \/ \E s \in Seeds : np_random_seed(s)
    \/ \E a \in T2IArgs : text_to_image(a)
    \/ \E img \in Images, p \in I2IPrompts, sh \in I2IShapes, k \in 0 .. StrengthDen :
          \/ image_to_image(img, p, sh, k, FALSE, BoxMask(DefaultBox), << 0, 0 >>)
          \/ \E obs \in ObsCells(sh[2]) : in_paint(img, p, sh, k, BoxMask(DefaultBox), obs)
          \/ \E m \in TensorMasks :
                \/ image_to_image(img, p, sh, k, TRUE, m, << 0, 0 >>)
                \/ in_paint(img, p, sh, k, m, << 0, 0 >>)
    \/ LoopStep
    \/ Decode

Spec == Init /\ [][Next]_vars

\* repeated text_to_image calls on one instance built from a valid configuration,
\* the caller seeding np.random between them
RepeatConfigs == {c \in SamplingConfigs : ValidConfig(c)}

\* the calls repeated: one image of 64 x 64, either prompt, with and without
\* init_x0, the whole schedule or all of it but the first step
RepeatArgs ==
    {a \in T2IArgs : a.batch_size = 1 /\ a.image_shape = << 64, 64 >> /\ a.init_step <= 1}

NextRepeat ==
    \/ \E c \in RepeatConfigs, w \in UnetWeights : init_ddim_sampler(c, w)
    \/ \E s \in Seeds : np_random_seed(s)
    \/ \E a \in RepeatArgs : text_to_image(a)
    \/ LoopStep
    \/ DecodeRecording

SpecRepeat == Init /\ [][NextRepeat]_vars

SchedLens ==
    {Len(time_steps), Len(ddim_alpha), Len(ddim_alpha_prev), Len(ddim_sigma),
     Len(ddim_alpha_sqrt), Len(ddim_sqrt_one_minus_alpha)}

\* C1: for every valid configuration in uniform mode the construction succeeds,
\* time_steps is i * floor(num_training_steps / num_steps) + 1 for
\* i = 0 .. num_steps - 1, and every schedule array has length num_steps.
C1_UniformSchedule ==
    (sampler # "new" /\ ValidConfig(cfg) /\ cfg.ddim_discretize = "uniform") =>
        /\ sampler = "built"
        /\ time_steps = [k \in 1 .. cfg.num_steps |->
                            (k - 1) * (cfg.num_training_steps \div cfg.num_steps) + 1]
        /\ SchedLens = {cfg.num_steps}

\* C2 as stated: for every valid configuration, in both modes, time_steps is
\* strictly increasing and alpha strictly decreasing in the step index.
C2_StrictlyMonotone ==
    (sampler = "built" /\ ValidConfig(cfg)) =>
        \A i \in 1 .. Len(time_steps) - 1 :
            /\ time_steps[i] < time_steps[i + 1]
            /\ ddim_alpha[i] > ddim_alpha[i + 1]

\* C2 amended: for every valid configuration time_steps is non-decreasing and
\* alpha non-increasing in the step index; both are strict in every mode but "quad".
C2_Monotone ==
    (sampler = "built" /\ ValidConfig(cfg)) =>
        \A i \in 1 .. Len(time_steps) - 1 :
            /\ time_steps[i] <= time_steps[i + 1]
            /\ ddim_alpha[i] >= ddim_alpha[i + 1]
            /\ cfg.ddim_discretize # "quad" =>
                   /\ time_steps[i] < time_steps[i + 1]
                   /\ ddim_alpha[i] > ddim_alpha[i + 1]

\* a quad schedule of a valid configuration that repeats a time step
C2_Witness ==
    /\ sampler = "built" /\ ValidConfig(cfg) /\ cfg.ddim_discretize = "quad"
    /\ Len(time_steps) >= 3
    /\ time_steps[1] = time_steps[2]
    /\ time_steps[2] < time_steps[3]

\* C3: the unconditional embedding is computed at most once per sampler instance.
C3_UncondComputedOnce == ValidConfig(cfg) => uncond_computed <= 1

\* C4: the construction fails and builds no schedule whenever num_steps <= 0,
\* num_training_steps < num_steps, or linear_start / linear_end is not in (0,1).
C4_InvalidConfigFails ==
    (sampler # "new" /\ ~ValidConfig(cfg)) =>
        (sampler = "failed" /\ time_steps = << >> /\ ddim_alpha = << >>)

InCall == pc \in {"loop", "done"}

\* C5: a sampling call runs exactly num_steps - init_step iterations, over the
\* schedule indices num_steps - 1 - init_step down to 0 in descending order, each
\* an index of the schedule arrays; it calls the noise predictor once per iteration.
C5_DescendingIterations ==
    (InCall /\ 0 <= call.init_step /\ call.init_step <= cfg.num_steps) =>
        /\ \A k \in 1 .. Len(visited) :
              /\ visited[k] = cfg.num_steps - call.init_step - k
              /\ 0 <= visited[k]
              /\ \A len \in SchedLens : visited[k] < len
        /\ Len(visited) + Len(todo) = cfg.num_steps - call.init_step
        /\ unet_calls = Len(visited)
        /\ pc = "done" => Len(visited) = cfg.num_steps - call.init_step

\* a finished call on a one step schedule, and so with one iteration at index 0
C5_Witness ==
    /\ pc = "done" /\ ValidConfig(cfg)
    /\ cfg.num_steps = 1 /\ call.init_step = 0
    /\ visited = << 0 >>

\* C6 as stated: in inpaint mode with a mask of ones the latent after every step
\* is the latent of the run without inpainting.
C6_OnesMaskIsPlainRun ==
    (InCall /\ ValidConfig(cfg) /\ call.inpaint.on /\ call.inpaint.mask = SCALE) =>
        xt = ref_xt

\* C6 amended: in inpaint mode with a mask of zeros the latent after every step
\* is the latent of the run without inpainting.
C6_ZerosMaskIsPlainRun ==
    (InCall /\ call.inpaint.on /\ call.inpaint.mask = 0) => xt = ref_xt

\* an inpaint call with a mask of zeros that made two steps and left the start
C6_Witness ==
    /\ pc = "done" /\ ValidConfig(cfg)
    /\ call.inpaint.on /\ call.inpaint.mask = 0
    /\ Len(visited) >= 2
    /\ xt # call.init_x0.value
    /\ xt # OrigT(1, call.inpaint)

\* C7: with eta = 0 every sigma[i] is 0 and the loop never draws from the gaussian
\* source; text_to_image draws the initial latent only, and nothing when init_x0
\* is given, for either value of repeat_noise.
C7_EtaZeroNoDraws ==
    (sampler = "built" /\ cfg.ddim_eta = 0) =>
        /\ \A i \in 1 .. Len(ddim_sigma) : ddim_sigma[i] = 0
        /\ InCall => loop_draws = 0
        /\ (InCall /\ call.entry = "text_to_image") =>
               draws = (IF call.init_x0.given THEN 0 ELSE 1)

\* m = floor((sqrt(num_training_steps * 0.8) * i / (num_steps - 1)) ^ 2), stated
\* without roots: m <= 0.8 * num_training_steps * i^2 / (num_steps - 1)^2 < m + 1
IsQuadFloor(m, c, i) ==
    LET num == 4 * c.num_training_steps * i * i
        den == 5 * (c.num_steps - 1) * (c.num_steps - 1)
    IN  m * den <= num /\ num < (m + 1) * den

IsQuadSchedule(c, ts) ==
    /\ Len(ts) = c.num_steps
    /\ \A k \in 1 .. Len(ts) : IsQuadFloor(ts[k] - 1, c, k - 1)

IsUniformSchedule(c, ts) ==
    \A k \in 1 .. Len(ts) :
        ts[k] = (k - 1) * (c.num_training_steps \div c.num_steps) + 1

\* C8 as stated: in mode "quadratic" time_steps[i] is
\* floor((sqrt(num_training_steps * 0.8) * i / (num_steps - 1)) ^ 2) + 1, and the
\* uniform formula is used in mode "uniform" only.
C8_QuadraticMode ==
    (sampler = "built" /\ ValidConfig(cfg) /\ cfg.num_steps >= 2) =>
        /\ cfg.ddim_discretize = "quadratic" => IsQuadSchedule(cfg, time_steps)
        /\ cfg.ddim_discretize # "uniform" => ~IsUniformSchedule(cfg, time_steps)

\* C8 amended: the quadratic formula is used in mode "quad"; every other mode,
\* "quadratic" too, uses the uniform formula.
C8_QuadMode ==
    (sampler = "built" /\ ValidConfig(cfg) /\ cfg.num_steps >= 2) =>
        IF cfg.ddim_discretize = "quad"
        THEN IsQuadSchedule(cfg, time_steps)
        ELSE IsUniformSchedule(cfg, time_steps)

\* a quad schedule that no uniform formula gives
C8_Witness ==
    /\ sampler = "built" /\ ValidConfig(cfg) /\ cfg.ddim_discretize = "quad"
    /\ cfg.num_steps = 3
    /\ IsQuadSchedule(cfg, time_steps)
    /\ ~IsUniformSchedule(cfg, time_steps)

\* C9 as stated: alpha_prev[i] = alpha[i-1] for i > 0 and alpha_prev[0] = 1.
C9_AlphaPrevStartsAtOne ==
    (sampler = "built" /\ ValidConfig(cfg)) =>
        /\ \A i \in 2 .. Len(ddim_alpha_prev) :
              /\ ddim_alpha_prev[i] = ddim_alpha[i - 1]
              /\ ddim_alpha_prev[i] = alpha_bar(cfg)[time_steps[i - 1] + 1]
        /\ ddim_alpha_prev[1] = alpha_bar(cfg)[1]
        /\ ddim_alpha_prev[1] = SCALE

\* C9 amended: alpha_prev[i] = alpha[i-1] for i > 0 and alpha_prev[0] =
\* alpha_bar[0] = 1 - beta[0] = 1 - linear_start, which is below 1.
C9_AlphaPrevShifted ==
    (sampler = "built" /\ ValidConfig(cfg)) =>
        /\ Len(ddim_alpha_prev) = Len(ddim_alpha)
        /\ \A i \in 2 .. Len(ddim_alpha_prev) : ddim_alpha_prev[i] = ddim_alpha[i - 1]
        /\ ddim_alpha_prev[1] = SCALE - cfg.linear_start
        /\ ddim_alpha_prev[1] < SCALE

\* a schedule of three steps whose alpha values differ
C9_Witness ==
    /\ sampler = "built" /\ ValidConfig(cfg)
    /\ Len(ddim_alpha) >= 3
    /\ ddim_alpha[1] > ddim_alpha[2] /\ ddim_alpha[2] > ddim_alpha[3]
    /\ ddim_alpha_prev[3] = ddim_alpha[2]
    /\ ddim_alpha_prev[1] > ddim_alpha[1]

\* C10: text_to_image rounds the requested height and width down to a multiple
\* of 64 (or fails) before it resolves the latent shape, so that the loop never
\* runs on a latent of a pixel size that is not a multiple of 64.
C10_ShapeMultipleOf64 ==
    (InCall /\ ValidConfig(cfg)) =>
        /\ (8 * target_shape[1]) % 64 = 0
        /\ (8 * target_shape[2]) % 64 = 0

\* C11: every iteration calls unet_model exactly once, on a batch of 2 * batch_size
\* rows whose first half pairs the latent with the unconditional embedding and
\* whose second half pairs it with the conditional one; the guided noise is
\* eps_uncond + guidance_scale * (eps_cond - eps_uncond), eps_uncond being the
\* first half of the output; a whole call with 0 <= init_step <= num_steps makes
\* num_steps - init_step unet_model calls.
C11_OneDoubledBatchCall ==
    LET B == call.batch_size
        io == unet_io
    IN  /\ InCall => unet_calls = Len(visited)
        /\ (InCall /\ unet_calls > 0) =>
              /\ Len(io.xt_inputs) = 2 * B /\ Len(io.context) = 2 * B
              /\ Len(io.time_step) = 2 * B /\ Len(io.out) = 2 * B
              /\ \A j \in 1 .. B :
                    /\ io.context[j] = uncond_token
                    /\ io.context[B + j] = cond_token
                    /\ io.xt_inputs[B + j] = io.xt_inputs[j]
                    /\ io.time_step[B + j] = io.time_step[j]
                    /\ io.time_step[j] = time_steps[visited[Len(visited)] + 1]
                    /\ io.out[j] = unet_model(unet_w, io.xt_inputs[j], io.time_step[j],
                                              uncond_token)
                    /\ io.out[B + j] = unet_model(unet_w, io.xt_inputs[j],
                                                  io.time_step[j], cond_token)
              /\ io.e_t = FAdd(io.out[1],
                               FMul(FSub(io.out[B + 1], io.out[1]), call.uncond_scale))
        /\ (pc = "done" /\ 0 <= call.init_step /\ call.init_step <= cfg.num_steps) =>
              unet_calls = cfg.num_steps - call.init_step

C11_Witness ==
    /\ pc = "done" /\ ValidConfig(cfg)
    /\ call.batch_size = 2 /\ unet_calls >= 2
    /\ unet_calls = cfg.num_steps - call.init_step
    /\ ~IsNaN(unet_io.e_t)
    /\ unet_io.out[1] # unet_io.out[3]

\* C12: a text_to_image call made with the prompt, arguments and generator state
\* of the first text_to_image call of the same instance returns the first call's
\* output: what the earlier calls left on the instance does not change the result.
C12_SameCallSameOutput ==
    (pc = "done" /\ first # NoFirst /\ call = first.call /\ start_rng = first.rng) =>
        result = first.result

C12_Witness ==
    /\ pc = "done" /\ calls = 2 /\ first # NoFirst
    /\ call = first.call /\ start_rng = first.rng
    /\ ~call.init_x0.given /\ loop_draws >= 1 /\ unet_calls >= 2
    /\ uncond_computed = 2
    /\ ~IsNaN(result) /\ result = first.result

\* the mask the box << top, left, bottom, right >> (in halves) describes on a
\* latent of the given height and width, read at element << row, col >>
LatentBoxAt(box, height, width, obs) ==
    IF /\ (box[1] * height) \div 2 <= obs[1] /\ obs[1] < (box[3] * height) \div 2
       /\ (box[2] * width) \div 2 <= obs[2] /\ obs[2] < (box[4] * width) \div 2
    THEN SCALE ELSE 0

\* C13: a box inpaint_mask becomes the mask that is 1 exactly on the latent rows
\* floor(top*H) .. floor(bottom*H)-1 and columns floor(left*W) .. floor(right*W)-1,
\* H and W the latent's height and width; the default box marks the bottom half.
C13_BoxMaskOnLatent ==
    (InCall /\ ValidConfig(cfg) /\ i2i.is_inpaint /\ i2i.mask.kind = "box") =>
        call.inpaint.mask = LatentBoxAt(i2i.mask.box, target_shape[1], target_shape[2],
                                        i2i.obs)

\* C14: for every strength in [0,1] the start index int(strength * num_steps) is an
\* index 0 .. num_steps-1 of alpha_sqrt and sqrt_one_minus_alpha, and the
\* text_to_image call that follows runs int(strength * num_steps) iterations.
C14_StrengthStartIndex ==
    (i2i # NoI2I /\ ValidConfig(cfg)) =>
        /\ 0 <= i2i.timestep_start /\ i2i.timestep_start <= cfg.num_steps - 1
        /\ raised # "IndexError"
        /\ pc = "done" => Len(visited) = i2i.timestep_start

\* C15: for every valid configuration, in either mode, every time_steps[i] is an
\* index of alpha_bar (0 .. num_training_steps - 1), so that building the schedule
\* never reads alpha_bar out of range.
C15_TimeStepsIndexAlphaBar ==
    (sampler # "new" /\ ValidConfig(cfg)) =>
        /\ ~IndexRaises(cfg, TimeStepsOf(cfg))
        /\ sampler = "built"
        /\ \A i \in 1 .. Len(time_steps) :
              0 <= time_steps[i] /\ time_steps[i] <= cfg.num_training_steps - 1
====
